---------------------------- MODULE Spec2Model ----------------------------
(***************************************************************************)
(* Parameter front-end of the phaser (src/phaser/phaser_parameters.cpp):   *)
(* declare_options, parse_command_line, check_options, and the iteration-  *)
(* scheme compiler that check_options delegates to.                        *)
(*                                                                         *)
(* Strings that are inspected character by character (the iteration       *)
(* scheme) are sequences of one-character strings.  The window size, a    *)
(* double in the source, is kept in units of 1e-5 cM, so that 0.5 is      *)
(* 50000, 10 is 1000000, 0.49999 is 49999 and 10.00001 is 1000001; all    *)
(* comparisons of the source are against 0.5 and 10, which are exact.     *)
(***************************************************************************)
EXTENDS Integers, Sequences, FiniteSets

VARIABLES pc, options, diag, out, status, plan, evaluated

vars == <<pc, options, diag, out, status, plan, evaluated>>

----------------------------------------------------------------------------
(* Bounds of the explored input space *)

MaxThread == 2

MaxTokens == 3

----------------------------------------------------------------------------
(* declare_options: the defaults of the option table *)

DefaultSeed == 15052011

DefaultThread == 1

DefaultWindow == 250000

DefaultEffectiveSize == 15000

DefaultSchemeShort == <<"5","b",",","1","p",",","1","b",",","1","p",",","1","b",",","1","p",",","4","m">>

DefaultScheme == <<"5","b",",","1","p",",","1","b",",","1","p",",","1","b",",","1","p",",","5","m">>

WindowMin == 50000

WindowMax == 1000000

ExitOnParseError == 0

ExitOnHelp == 0

ExitOnError == 1

----------------------------------------------------------------------------
(* The variables_map: per option its count, its defaulted bit, its value *)

Absent == [count |-> 0, defaulted |-> FALSE, value |-> 0]

Given(v) == [count |-> 1, defaulted |-> FALSE, value |-> v]

Defaulted(v) == [count |-> 1, defaulted |-> TRUE, value |-> v]

Flag(b) == IF b THEN Given(0) ELSE Absent

WithDefault(a, d) == IF Len(a) = 0 THEN Defaulted(d) ELSE Given(a[1])

EmptyOptions ==
  [help |-> Absent, log |-> Absent, input |-> Absent, region |-> Absent,
   output |-> Absent, seed |-> Absent, thread |-> Absent,
   effective_size |-> Absent, window |-> Absent, mcmc_iterations |-> Absent]

(* bpo::store + bpo::notify over the declared table *)
Store(args) ==
  [help |-> Flag(args.help), log |-> Flag(args.log), input |-> Flag(args.input),
   region |-> Flag(args.region), output |-> Flag(args.output),
   seed |-> WithDefault(args.seed, DefaultSeed),
   thread |-> WithDefault(args.thread, DefaultThread),
   effective_size |-> WithDefault(args.effective_size, DefaultEffectiveSize),
   window |-> WithDefault(args.window, DefaultWindow),
   mcmc_iterations |-> WithDefault(args.mcmc_iterations, DefaultScheme)]

----------------------------------------------------------------------------
(* Diagnostics *)

Error(rule, what) == [kind |-> "error", rule |-> rule, what |-> what]

Warning(rule) == [kind |-> "warning", rule |-> rule, what |-> ""]

----------------------------------------------------------------------------
(* Iteration-scheme mini-language: tokenizer and compiler *)

Digits == <<"0","1","2","3","4","5","6","7","8","9">>

IsDigit(c) == \E i \in 1..Len(Digits) : Digits[i] = c

DigitVal(c) == (CHOOSE i \in 1..Len(Digits) : Digits[i] = c) - 1

PhaseKinds == {"b", "p", "m"}

RECURSIVE Split(_)
(* elements of s between commas, empty elements kept *)
Split(s) ==
  IF \A i \in 1..Len(s) : s[i] # ","
  THEN <<s>>
  ELSE LET k == CHOOSE i \in 1..Len(s) :
                  s[i] = "," /\ \A j \in 1..(i-1) : s[j] # ","
       IN <<SubSeq(s, 1, k-1)>> \o Split(SubSeq(s, k+1, Len(s)))

(* one-or-more decimal digits followed by exactly one kind character *)
MatchesPattern(e) ==
  /\ Len(e) >= 2
  /\ \A i \in 1..(Len(e)-1) : IsDigit(e[i])
  /\ ~IsDigit(e[Len(e)])

RECURSIVE DecimalValue(_)
DecimalValue(ds) ==
  IF Len(ds) = 0 THEN 0
  ELSE 10 * DecimalValue(SubSeq(ds, 1, Len(ds)-1)) + DigitVal(ds[Len(ds)])

RepeatCount(e) == DecimalValue(SubSeq(e, 1, Len(e)-1))

KindChar(e) == e[Len(e)]

Malformed(e) == ~MatchesPattern(e) \/ RepeatCount(e) = 0

Repeat(k, n) == [i \in 1..n |-> k]

RECURSIVE Expand(_)
(* each token appended as repeatCount copies of its kind, in source order *)
Expand(toks) ==
  IF Len(toks) = 0 THEN <<>>
  ELSE Repeat(KindChar(Head(toks)), RepeatCount(Head(toks))) \o Expand(Tail(toks))

Failure(err, what) == [err |-> err, what |-> what, plan |-> <<>>]

parse_iteration_scheme(str) ==
  IF Len(str) = 0 THEN Failure("EmptySchedule", "")
  ELSE LET toks == Split(str)
           bad == {i \in 1..Len(toks) : Malformed(toks[i])}
           unk == {i \in 1..Len(toks) : KindChar(toks[i]) \notin PhaseKinds}
       IN IF bad # {} THEN Failure("MalformedToken", "")
          ELSE IF unk # {}
          THEN Failure("UnknownPhaseKind",
                       KindChar(toks[CHOOSE i \in unk : \A j \in unk : i <= j]))
          ELSE [err |-> "none", what |-> "", plan |-> Expand(toks)]

(* Iteration Plan query surface *)
RECURSIVE CountKind(_, _)
CountKind(p, k) ==
  IF Len(p) = 0 THEN 0
  ELSE (IF Head(p) = k THEN 1 ELSE 0) + CountKind(Tail(p), k)

----------------------------------------------------------------------------
(* check_options: the rules, in the order the code evaluates them *)

ChecksSchemeBeforeWindow ==
  <<"input", "region", "output", "seed", "thread", "thread-seed",
    "effective-size", "mcmc-iterations", "window">>

ChecksRegionFirst ==
  <<"region", "input", "output", "seed", "thread", "thread-seed",
    "effective-size", "window", "mcmc-iterations">>

ChecksNoScheme ==
  <<"input", "region", "output", "seed", "thread", "thread-seed",
    "effective-size", "window">>

Checks ==
  <<"input", "region", "output", "seed", "thread", "thread-seed",
    "effective-size", "window", "mcmc-iterations">>

SeedViolatedStrict(o) == o.seed.count > 0 /\ o.seed.value <= 0

SeedViolated(o) == o.seed.count > 0 /\ o.seed.value < 0

ThreadViolatedLax(o) == o.thread.count > 0 /\ o.thread.value < 0

ThreadViolated(o) == o.thread.count > 0 /\ o.thread.value < 1

WarnCondMulti(o) ==
  ~o.thread.defaulted /\ o.thread.value > 1 /\ ~o.seed.defaulted

WarnCond(o) == ~o.thread.defaulted /\ ~o.seed.defaulted

EffectiveSizeViolated(o) ==
  ~o.effective_size.defaulted /\ o.effective_size.value < 1

WindowViolatedExclusive(o) ==
  ~o.window.defaulted /\ (o.window.value <= WindowMin \/ o.window.value > WindowMax)

WindowViolated(o) ==
  ~o.window.defaulted /\ (o.window.value < WindowMin \/ o.window.value > WindowMax)

Violated(rule, o) ==
  CASE rule = "input" -> o.input.count = 0
    [] rule = "region" -> o.region.count = 0
    [] rule = "output" -> o.output.count = 0
    [] rule = "seed" -> SeedViolated(o)
    [] rule = "thread" -> ThreadViolated(o)
    [] rule = "effective-size" -> EffectiveSizeViolated(o)
    [] rule = "window" -> WindowViolated(o)
    [] OTHER -> FALSE

SchemeArgDefault(o) == DefaultScheme

SchemeArg(o) == o.mcmc_iterations.value

(* verbose::error reports the message and ends the process *)
Fatal(st, e) ==
  [st EXCEPT !.diag = Append(@, e), !.status = <<ExitOnError>>, !.pc = "exited"]

RECURSIVE RunChecks(_, _, _)
RunChecks(i, o, st) ==
  IF i > Len(Checks) THEN [st EXCEPT !.pc = "checked"]
  ELSE LET rule == Checks[i]
           s1 == [st EXCEPT !.evaluated = Append(@, rule)]
       IN CASE rule = "thread-seed" ->
                 RunChecks(i + 1, o,
                   IF WarnCond(o)
                   THEN [s1 EXCEPT !.diag = Append(@, Warning(rule))]
                   ELSE s1)
            [] rule = "mcmc-iterations" ->
                 LET r == parse_iteration_scheme(SchemeArg(o))
                 IN IF r.err # "none" THEN Fatal(s1, Error(r.err, r.what))
                    ELSE RunChecks(i + 1, o, [s1 EXCEPT !.plan = r.plan])
            [] OTHER ->
                 IF Violated(rule, o) THEN Fatal(s1, Error(rule, ""))
                 ELSE RunChecks(i + 1, o, s1)

----------------------------------------------------------------------------
(* Command lines explored *)

SchemeSamples ==
  { <<>>,
    <<"0","b">>,
    <<"3","x">>,
    <<"b",",","1","p">>,
    <<"1","b",",","1","b">>,
    <<"2","b",",","1","m">> }

Opt(S) == {<<>>} \cup {<<v>> : v \in S}

ArgSets ==
  [bad : BOOLEAN, help : BOOLEAN, log : BOOLEAN,
   input : BOOLEAN, region : BOOLEAN, output : BOOLEAN,
   seed : Opt({-1, 0}),
   thread : Opt(0..MaxThread),
   effective_size : Opt({0, 1}),
   window : Opt({49999, 50000, 1000000, 1000001}),
   mcmc_iterations : Opt(SchemeSamples)]

Elements ==
  { <<"1","b">>, <<"2","b">>, <<"1","p">>, <<"1","m">>, <<"1","2","p">>,
    <<"0","b">>, <<"b">>, <<"1">>, <<"3","x">>, <<>>, <<"1","b","b">> }

RECURSIVE Join(_)
Join(es) ==
  IF Len(es) = 0 THEN <<>>
  ELSE IF Len(es) = 1 THEN es[1]
  ELSE es[1] \o <<",">> \o Join(Tail(es))

SchemeInputs ==
  UNION { {Join(es) : es \in [1..n -> Elements]} : n \in 0..MaxTokens }

----------------------------------------------------------------------------
(* State machine *)

Init ==
  /\ pc = "declared"
  /\ options = EmptyOptions
  /\ diag = <<>>
  /\ out = <<>>
  /\ status = <<>>
  /\ plan = <<>>
  /\ evaluated = <<>>

parse_command_line(args, logOpens) ==
  /\ IF args.bad
     THEN /\ diag' = Append(diag, Error("parse", ""))
          /\ status' = <<ExitOnParseError>>
          /\ pc' = "exited"
          /\ UNCHANGED <<options, out>>
     ELSE /\ options' = Store(args)
          /\ IF args.help
             THEN /\ out' = Append(out, "help")
                  /\ status' = <<ExitOnHelp>>
                  /\ pc' = "exited"
                  /\ UNCHANGED diag
             ELSE IF args.log /\ ~logOpens
             THEN /\ diag' = Append(diag, Error("log", ""))
                  /\ status' = <<ExitOnError>>
                  /\ pc' = "exited"
                  /\ UNCHANGED out
             ELSE /\ out' = Append(out, "banner")
                  /\ pc' = "parsed"
                  /\ UNCHANGED <<diag, status>>
  /\ UNCHANGED <<plan, evaluated>>

ParseCommandLine ==
  /\ pc = "declared"
  /\ \E args \in ArgSets, logOpens \in BOOLEAN : parse_command_line(args, logOpens)

check_options ==
  /\ pc = "parsed"
  /\ LET r == RunChecks(1, options,
                [pc |-> pc, diag |-> diag, status |-> status,
                 plan |-> plan, evaluated |-> evaluated])
     IN /\ pc' = r.pc
        /\ diag' = r.diag
        /\ status' = r.status
        /\ plan' = r.plan
        /\ evaluated' = r.evaluated
  /\ UNCHANGED <<options, out>>

Next == ParseCommandLine \/ check_options

Spec == Init /\ [][Next]_vars

(* The compiler as a function of the scheme string alone: every other
   option valid, the scheme drawn from the generated strings. *)
SchemeInit ==
  /\ pc = "parsed"
  /\ \E s \in SchemeInputs :
       options = Store([bad |-> FALSE, help |-> FALSE, log |-> FALSE,
                        input |-> TRUE, region |-> TRUE, output |-> TRUE,
                        seed |-> <<>>, thread |-> <<>>, effective_size |-> <<>>,
                        window |-> <<>>, mcmc_iterations |-> <<s>>])
  /\ diag = <<>>
  /\ out = <<"banner">>
  /\ status = <<>>
  /\ plan = <<>>
  /\ evaluated = <<>>

SchemeNext == check_options

SchemeSpec == SchemeInit /\ [][SchemeNext]_vars

----------------------------------------------------------------------------
(* Vocabulary of the properties, stated on the option values themselves *)

Scheme == options.mcmc_iterations.value

Checked == evaluated # <<>>

Has(d, e) == \E i \in 1..Len(d) : d[i] = e

Reached(rule) == \E i \in 1..Len(evaluated) : evaluated[i] = rule

ErrorsOf(d) == SelectSeq(d, LAMBDA e : e.kind = "error")

Warned == Has(diag, Warning("thread-seed"))

UserThreadAndSeed == ~options.thread.defaulted /\ ~options.seed.defaulted

MissingInput == options.input.count = 0

MissingRegion == options.region.count = 0

MissingOutput == options.output.count = 0

BadSeed == options.seed.value < 0

BadThread == options.thread.value < 1

BadEffectiveSize ==
  ~options.effective_size.defaulted /\ options.effective_size.value < 1

BadWindow ==
  /\ ~options.window.defaulted
  /\ (options.window.value < 50000 \/ options.window.value > 1000000)

PresenceFails == MissingInput \/ MissingRegion \/ MissingOutput

RangeFails == BadSeed \/ BadThread \/ BadEffectiveSize \/ BadWindow

FirstFailure ==
  CASE MissingInput -> "input"
    [] MissingRegion -> "region"
    [] MissingOutput -> "output"
    [] BadSeed -> "seed"
    [] BadThread -> "thread"
    [] BadEffectiveSize -> "effective-size"
    [] BadWindow -> "window"
    [] OTHER -> "none"

Tokens(str) ==
  LET es == Split(str)
  IN [i \in 1..Len(es) |-> [count |-> RepeatCount(es[i]), kind |-> KindChar(es[i])]]

IsValidScheme(str) ==
  /\ Len(str) > 0
  /\ \A i \in 1..Len(Split(str)) :
       LET e == Split(str)[i]
       IN MatchesPattern(e) /\ RepeatCount(e) >= 1 /\ KindChar(e) \in PhaseKinds

RECURSIVE SumCounts(_)
SumCounts(toks) ==
  IF Len(toks) = 0 THEN 0 ELSE Head(toks).count + SumCounts(Tail(toks))

RunLength(p) ==
  CHOOSE n \in 1..Len(p) :
    /\ \A i \in 1..n : p[i] = p[1]
    /\ (n < Len(p) => p[n+1] # p[1])

RECURSIVE Runs(_)
(* maximal runs of identical adjacent kind *)
Runs(p) ==
  IF Len(p) = 0 THEN <<>>
  ELSE <<[count |-> RunLength(p), kind |-> p[1]]>>
         \o Runs(SubSeq(p, RunLength(p) + 1, Len(p)))

RECURSIVE MergeAdjacent(_)
(* adjacent tokens of the same kind merged, their counts added *)
MergeAdjacent(toks) ==
  IF Len(toks) <= 1 THEN toks
  ELSE LET rest == MergeAdjacent(Tail(toks))
       IN IF Head(rest).kind = Head(toks).kind
          THEN <<[count |-> Head(toks).count + Head(rest).count,
                  kind |-> Head(toks).kind]>> \o Tail(rest)
          ELSE <<Head(toks)>> \o rest

NoAdjacentSameKind(toks) ==
  \A i \in 1..(Len(toks) - 1) : toks[i].kind # toks[i+1].kind

HasEmptyElement(str) ==
  /\ Len(str) > 0
  /\ \/ str[1] = ","
     \/ str[Len(str)] = ","
     \/ \E i \in 1..(Len(str) - 1) : str[i] = "," /\ str[i+1] = ","

FailedWith(err, what) ==
  /\ pc = "exited"
  /\ diag = <<Error(err, what)>>
  /\ plan = <<>>

----------------------------------------------------------------------------
(* C1, as stated: for every valid scheme string the plan's length is the
   sum of the token repeat counts and the maximal runs of the plan are the
   original token sequence. *)
C1_Original ==
  (Checked /\ IsValidScheme(Scheme)) =>
     /\ pc = "checked"
     /\ Len(plan) = SumCounts(Tokens(Scheme))
     /\ Runs(plan) = Tokens(Scheme)

(* C1, amended: for every valid scheme string the plan is the in-order
   expansion of the tokens; its length is the sum of the repeat counts,
   and its maximal runs are the token sequence with adjacent tokens of the
   same kind merged, hence the token sequence itself whenever no two
   adjacent tokens have the same kind. *)
C1_LiteralExpansion ==
  (Checked /\ IsValidScheme(Scheme)) =>
     /\ pc = "checked"
     /\ Len(plan) = SumCounts(Tokens(Scheme))
     /\ Runs(plan) = MergeAdjacent(Tokens(Scheme))
     /\ (NoAdjacentSameKind(Tokens(Scheme)) => Runs(plan) = Tokens(Scheme))

C1_Witness ==
  /\ pc = "checked"
  /\ Scheme = <<"2","b",",","1","b",",","1","p">>
  /\ plan = <<"b","b","b","p">>

(* C2: a parameter set missing --input reports the missing-input error
   first and alone, whatever the other values; presence is checked in the
   order input, region, output, before any range check. *)
C2_PresenceFirst ==
  Checked =>
     /\ (MissingInput =>
           /\ pc = "exited"
           /\ diag = <<Error("input", "")>>
           /\ evaluated = <<"input">>)
     /\ ((~MissingInput /\ MissingRegion) =>
           /\ pc = "exited"
           /\ diag = <<Error("region", "")>>)
     /\ ((~MissingInput /\ ~MissingRegion /\ MissingOutput) =>
           /\ pc = "exited"
           /\ diag = <<Error("output", "")>>)

C2_Witness ==
  /\ pc = "exited"
  /\ MissingInput
  /\ options.window = Given(1000001)
  /\ BadSeed
  /\ diag = <<Error("input", "")>>

(* C3: strings outside the grammar fail with their error kind and yield
   no plan: "" with EmptySchedule; a zero repeat count, missing digits or
   an empty element with MalformedToken; a kind outside b, p, m with
   UnknownPhaseKind naming the character. *)
C3_Rejections ==
  Checked =>
     /\ (Scheme = <<>> => FailedWith("EmptySchedule", ""))
     /\ (Scheme = <<"0","b">> => FailedWith("MalformedToken", ""))
     /\ (Scheme = <<"b",",","1","p">> => FailedWith("MalformedToken", ""))
     /\ (Scheme = <<"3","x">> => FailedWith("UnknownPhaseKind", "x"))
     /\ (HasEmptyElement(Scheme) => FailedWith("MalformedToken", ""))
     /\ ((Len(Scheme) > 0 /\ \E i \in 1..Len(Split(Scheme)) :
                               ~MatchesPattern(Split(Scheme)[i]))
           => FailedWith("MalformedToken", ""))
     /\ ((/\ Len(Scheme) > 0
          /\ \A i \in 1..Len(Split(Scheme)) :
                /\ MatchesPattern(Split(Scheme)[i])
                /\ KindChar(Split(Scheme)[i]) \in PhaseKinds
          /\ \E i \in 1..Len(Tokens(Scheme)) : Tokens(Scheme)[i].count = 0)
           => FailedWith("MalformedToken", ""))
     /\ ((/\ Len(Scheme) > 0
          /\ \A i \in 1..Len(Split(Scheme)) :
                /\ MatchesPattern(Split(Scheme)[i])
                /\ Tokens(Scheme)[i].count >= 1
          /\ \E i \in 1..Len(Tokens(Scheme)) :
                Tokens(Scheme)[i].kind \notin PhaseKinds)
           => \E i \in 1..Len(Tokens(Scheme)) :
                /\ Tokens(Scheme)[i].kind \notin PhaseKinds
                /\ \A j \in 1..(i-1) : Tokens(Scheme)[j].kind \in PhaseKinds
                /\ FailedWith("UnknownPhaseKind", Tokens(Scheme)[i].kind))
     /\ (~IsValidScheme(Scheme) => (pc = "exited" /\ plan = <<>>))

C3_Witness ==
  /\ Scheme = <<"1","b",",","3","x">>
  /\ FailedWith("UnknownPhaseKind", "x")

(* C4: --help exits with success status; an argument-parsing error and a
   fatal validation failure both exit with a non-success status. *)
C4_ExitStatus ==
  pc = "exited" =>
     /\ ((Len(out) > 0 /\ out[Len(out)] = "help") => status = <<0>>)
     /\ (ErrorsOf(diag) # <<>> => status # <<0>>)

(* C5, as stated: the order is presence, then every range check (seed,
   thread, effective-size, window), then the advisory warning, then the
   schedule compilation. *)
C5_Original ==
  /\ (Reached("thread-seed") =>
        /\ Reached("effective-size") /\ Reached("window")
        /\ ~PresenceFails /\ ~RangeFails)
  /\ (Reached("mcmc-iterations") => (~PresenceFails /\ ~RangeFails))

(* C5, amended: the rules are applied in the order input, region, output,
   seed, thread, advisory warning, effective-size, window, schedule
   compilation; the warning is evaluated once the presence, seed and
   thread checks have passed, and the scheme is compiled only once every
   presence and range check has passed. *)
C5_CodeOrder ==
  LET order == <<"input", "region", "output", "seed", "thread", "thread-seed",
                 "effective-size", "window", "mcmc-iterations">>
  IN /\ Len(evaluated) <= Len(order)
     /\ evaluated = SubSeq(order, 1, Len(evaluated))
     /\ (Reached("thread-seed") =>
           (~PresenceFails /\ ~BadSeed /\ ~BadThread))
     /\ (Reached("mcmc-iterations") => (~PresenceFails /\ ~RangeFails))
     /\ ((Checked /\ ~PresenceFails /\ ~RangeFails) => Reached("mcmc-iterations"))

C5_Witness ==
  /\ Warned
  /\ BadWindow
  /\ evaluated = <<"input", "region", "output", "seed", "thread", "thread-seed",
                   "effective-size", "window">>

(* C6, as stated: a parameter set that violates a fatal rule yields
   exactly one message, that of the first violated rule; no later check
   is evaluated and the scheme is not compiled. *)
C6_Original ==
  (Checked /\ (PresenceFails \/ RangeFails)) =>
     /\ pc = "exited"
     /\ diag = <<Error(FirstFailure, "")>>
     /\ evaluated[Len(evaluated)] = FirstFailure
     /\ ~Reached("mcmc-iterations")
     /\ plan = <<>>

(* C6, amended: a parameter set that violates a fatal rule yields exactly
   one error message, that of the first violated rule, as the last
   diagnostic; the advisory warning precedes it exactly when --thread and
   --seed are both user-supplied and the first violated rule is
   effective-size or window; no later check is evaluated and the scheme
   is not compiled. *)
C6_OneError ==
  (Checked /\ (PresenceFails \/ RangeFails)) =>
     /\ pc = "exited"
     /\ ErrorsOf(diag) = <<Error(FirstFailure, "")>>
     /\ diag[Len(diag)] = Error(FirstFailure, "")
     /\ diag = (IF UserThreadAndSeed /\ FirstFailure \in {"effective-size", "window"}
                THEN <<Warning("thread-seed")>> ELSE <<>>)
               \o <<Error(FirstFailure, "")>>
     /\ evaluated[Len(evaluated)] = FirstFailure
     /\ ~Reached("mcmc-iterations")
     /\ plan = <<>>

C6_Witness ==
  /\ pc = "exited"
  /\ UserThreadAndSeed /\ BadEffectiveSize /\ BadWindow
  /\ diag = <<Warning("thread-seed"), Error("effective-size", "")>>
  /\ evaluated[Len(evaluated)] = "effective-size"

(* C7: a user-supplied window is accepted iff 0.5 <= window <= 10, both
   bounds included; a defaulted window is not checked; likewise a
   user-supplied effective size is accepted iff it is >= 1. *)
C7_WindowRange ==
  /\ (Reached("window") =>
        /\ (Has(diag, Error("window", "")) <=> BadWindow)
        /\ (options.window \in {Given(50000), Given(1000000)}
              => ~Has(diag, Error("window", "")))
        /\ (options.window \in {Given(49999), Given(1000001)}
              => (pc = "exited" /\ diag[Len(diag)] = Error("window", "")))
        /\ (options.window.defaulted => ~Has(diag, Error("window", ""))))
  /\ (Reached("effective-size") =>
        /\ (Has(diag, Error("effective-size", "")) <=> BadEffectiveSize)
        /\ (options.effective_size.defaulted
              => ~Has(diag, Error("effective-size", ""))))

C7_Witness ==
  /\ Reached("mcmc-iterations")
  /\ options.window = Given(50000)
  /\ options.effective_size = Given(1)

(* C8: with the required options present, a seed is accepted iff it is
   >= 0 and a thread count iff it is >= 1, user-supplied or defaulted. *)
C8_SeedThreadRange ==
  (Checked /\ ~PresenceFails) =>
     /\ (Has(diag, Error("seed", "")) <=> options.seed.value < 0)
     /\ (options.seed.value >= 0 =>
           (Has(diag, Error("thread", "")) <=> options.thread.value < 1))
     /\ (options.seed = Given(0) => Reached("thread"))
     /\ (options.seed = Given(-1) => diag = <<Error("seed", "")>>)
     /\ ((options.seed.defaulted /\ options.thread.defaulted)
           => (Reached("seed") /\ Reached("thread") /\ Reached("thread-seed")))

C8_Witness ==
  /\ options.seed = Given(0)
  /\ options.thread = Given(1)
  /\ Reached("effective-size")
  /\ ~Has(diag, Error("seed", ""))

(* C9: the reproducibility warning is emitted iff --thread and --seed are
   both user-supplied (a user-supplied thread count of 1 included) and
   validation reaches the rule; it does not stop execution, the remaining
   checks still run, and no option value is changed. *)
C9_WarningState ==
  /\ (Warned <=> (Reached("thread-seed") /\ UserThreadAndSeed))
  /\ (Warned => Reached("effective-size"))
  /\ ((Warned /\ ~BadEffectiveSize /\ ~BadWindow) => Reached("mcmc-iterations"))
  /\ ((Warned /\ ~BadEffectiveSize /\ ~BadWindow /\ IsValidScheme(Scheme))
        => (pc = "checked" /\ status = <<>>))

C9_Advisory ==
  /\ []C9_WarningState
  /\ [][pc = "parsed" => options' = options]_vars

C9_Witness ==
  /\ pc = "checked"
  /\ Warned
  /\ options.thread = Given(1)
  /\ ~options.seed.defaulted

(* C10, as stated: the default scheme compiles to exactly 14 phases,
   b,b,b,b,b,p,b,p,b,p,m,m,m,m,m, with 7 burn-in, 3 pruning, 5 main. *)
C10_Original ==
  (pc = "checked" /\ options.mcmc_iterations.defaulted) =>
     /\ Len(plan) = 14
     /\ plan = <<"b","b","b","b","b","p","b","p","b","p","m","m","m","m","m">>
     /\ CountKind(plan, "b") = 7
     /\ CountKind(plan, "p") = 3
     /\ CountKind(plan, "m") = 5

(* C10, amended: the default scheme compiles to exactly 15 phases,
   b,b,b,b,b,p,b,p,b,p,m,m,m,m,m, with 7 burn-in, 3 pruning, 5 main, the
   per-kind counts adding up to the total. *)
C10_DefaultPlan ==
  (pc = "checked" /\ options.mcmc_iterations.defaulted) =>
     /\ Scheme = <<"5","b",",","1","p",",","1","b",",","1","p",",","1","b",
                   ",","1","p",",","5","m">>
     /\ Len(plan) = 15
     /\ plan = <<"b","b","b","b","b","p","b","p","b","p","m","m","m","m","m">>
     /\ CountKind(plan, "b") = 7
     /\ CountKind(plan, "p") = 3
     /\ CountKind(plan, "m") = 5
     /\ CountKind(plan, "b") + CountKind(plan, "p") + CountKind(plan, "m") = Len(plan)

C10_Witness ==
  /\ pc = "checked"
  /\ options.mcmc_iterations.defaulted
  /\ Len(plan) = 15

=============================================================================
